---- MODULE Spec2Model ----
(***************************************************************************)
(* Dragon Curve Explorer (src/tailwind.config.js, lines 45-848): the       *)
(* L-system string generator, the 2D and 3D turtle projectors, the 3D view *)
(* state, the renderer's inputs and the animation driver.                  *)
(*                                                                         *)
(* Number representation.  Angles are degrees and restricted to multiples  *)
(* of 90, where Math.cos / Math.sin are taken at their exact values        *)
(* -1, 0, 1, so points and rotation matrices are integer valued.           *)
(* rotX / rotY are in units of 1e-4 rad, userZoom in units of 1e-3.        *)
(* viewCenter holds twice the centre (min + max per axis), boundingRadius  *)
(* and cameraDist hold the square of twice their value, baseZoom is in     *)
(* units of 1e-2: each is an injective encoding of the value the code      *)
(* stores.                                                                 *)
(***************************************************************************)
EXTENDS Integers, Sequences, FiniteSets, TLC

(***************************************************************************)
(* Bounds of the model.                                                    *)
(***************************************************************************)
\* largest iteration count the iteration slider offers
MaxIter == 1
\* largest argument handed to generateLSystem when it is exercised alone
MaxN == 4
\* longest symbol string handed to the projectors when exercised alone
MaxLen == 3

(***************************************************************************)
(* L-system generation                                                     *)
(***************************************************************************)
\* the characters a symbol string may hold; "X" stands for any other character
Alphabet == {"F", "G", "+", "-", "X"}

\* RewriteChar with the turn left out of G's rule
RewriteChar_GWithoutTurn(ch) ==
    IF ch = "F" THEN <<"F", "+", "G">>
    ELSE IF ch = "G" THEN <<"F", "G">>
    ELSE <<ch>>

\* one character's rewrite (lines 145-147)
RewriteChar(ch) ==
    IF ch = "F" THEN <<"F", "+", "G">>
    ELSE IF ch = "G" THEN <<"F", "-", "G">>
    ELSE <<ch>>

RECURSIVE RewriteString(_)
\* the inner for..of loop (lines 143-149): every character rewritten, in order
RewriteString(str) ==
    IF str = <<>> THEN <<>>
    ELSE RewriteChar(Head(str)) \o RewriteString(Tail(str))

RECURSIVE ExpandFrom(_, _, _)
\* the outer loop (lines 141-150): for (i = 0; i < n; i++) str = next
ExpandFrom(str, i, n) ==
    IF i < n THEN ExpandFrom(RewriteString(str), i + 1, n) ELSE str

\* ComputeLSystem with the loop counter starting at 1
ComputeLSystem_LoopFromOne(n) == ExpandFrom(<<"F">>, 1, n)

\* the string generateLSystem computes when the cache holds nothing for n
ComputeLSystem(n) == ExpandFrom(<<"F">>, 0, n)

\* line 140: lSystemCache[n] is truthy (a stored string is never empty)
CacheHit(cache, n) == n \in DOMAIN cache /\ cache[n] # <<>>

\* CacheKey with the sign of n dropped
CacheKey_Magnitude(n) == IF n < 0 THEN -n ELSE n

\* the key under which line 151 stores the string computed for n
CacheKey(n) == n

\* generateLSystem(n): the string returned (lines 140, 152)
GenerateLSystem(cache, n) ==
    IF CacheHit(cache, n) THEN cache[n] ELSE ComputeLSystem(n)

\* generateLSystem(n): the cache it leaves behind (line 151)
CacheAfter(cache, n) ==
    IF CacheHit(cache, n) THEN cache
    ELSE [k \in DOMAIN cache \cup {CacheKey(n)} |->
             IF k = CacheKey(n) THEN ComputeLSystem(n) ELSE cache[k]]

(***************************************************************************)
(* Trigonometry at multiples of 90 degrees                                 *)
(***************************************************************************)
Cos(deg) ==
    CASE deg % 360 = 0 -> 1
      [] deg % 360 = 90 -> 0
      [] deg % 360 = 180 -> -1
      [] deg % 360 = 270 -> 0

Sin(deg) ==
    CASE deg % 360 = 0 -> 0
      [] deg % 360 = 90 -> 1
      [] deg % 360 = 180 -> 0
      [] deg % 360 = 270 -> -1

(***************************************************************************)
(* 2D projector                                                            *)
(***************************************************************************)
\* Step2D recording a point for every character that is not a turn
Step2D_UnknownDraws(t, ch, angleDeg) ==
    IF ch = "+" THEN [t EXCEPT !.direction = t.direction + angleDeg]
    ELSE IF ch = "-" THEN [t EXCEPT !.direction = t.direction - angleDeg]
    ELSE
        LET nx == t.x + Cos(t.direction)
            ny == t.y + Sin(t.direction)
        IN [t EXCEPT !.x = nx, !.y = ny, !.points = Append(t.points, <<nx, ny>>)]

\* one character of get2DPoints' loop (lines 172-180) on the turtle
\* t = [x, y, direction, points]
Step2D(t, ch, angleDeg) ==
    IF ch = "F" \/ ch = "G" THEN
        LET nx == t.x + Cos(t.direction)
            ny == t.y + Sin(t.direction)
        IN [t EXCEPT !.x = nx, !.y = ny, !.points = Append(t.points, <<nx, ny>>)]
    ELSE IF ch = "+" THEN [t EXCEPT !.direction = t.direction + angleDeg]
    ELSE IF ch = "-" THEN [t EXCEPT !.direction = t.direction - angleDeg]
    ELSE t

RECURSIVE Walk2D(_, _, _)
Walk2D(t, str, angleDeg) ==
    IF str = <<>> THEN t
    ELSE Walk2D(Step2D(t, Head(str), angleDeg), Tail(str), angleDeg)

\* get2DPoints(str, angleDeg)
Get2DPoints(str, angleDeg) ==
    Walk2D([x |-> 0, y |-> 0, direction |-> 0, points |-> <<<<0, 0>>>>],
           str, angleDeg).points

(***************************************************************************)
(* 3D projector                                                            *)
(***************************************************************************)
GetRotationZ(deg) ==
    << <<Cos(deg), -Sin(deg), 0>>,
       <<Sin(deg), Cos(deg), 0>>,
       <<0, 0, 1>> >>

GetRotationX(deg) ==
    << <<1, 0, 0>>,
       <<0, Cos(deg), -Sin(deg)>>,
       <<0, Sin(deg), Cos(deg)>> >>

MatMul(A, B) ==
    [i \in 1..3 |-> [j \in 1..3 |->
        A[i][1] * B[1][j] + A[i][2] * B[2][j] + A[i][3] * B[3][j]]]

ApplyMat(mat, vec) ==
    << mat[1][1] * vec[1] + mat[1][2] * vec[2] + mat[1][3] * vec[3],
       mat[2][1] * vec[1] + mat[2][2] * vec[2] + mat[2][3] * vec[3],
       mat[3][1] * vec[1] + mat[3][2] * vec[2] + mat[3][3] * vec[3] >>

PlusRot(angleDeg, twistDeg) == MatMul(GetRotationZ(angleDeg), GetRotationX(twistDeg))

\* MinusRot turning the same way as PlusRot
MinusRot_SameTurn(angleDeg, twistDeg) ==
    MatMul(GetRotationZ(angleDeg), GetRotationX(twistDeg))

MinusRot(angleDeg, twistDeg) == MatMul(GetRotationZ(-angleDeg), GetRotationX(twistDeg))

IdentityMat == << <<1, 0, 0>>, <<0, 1, 0>>, <<0, 0, 1>> >>

\* one character of get3DPoints' loop (lines 260-273) on the turtle
\* t = [x, y, z, orientation, points]
Step3D(t, ch, angleDeg, twistDeg, extrude) ==
    IF ch = "F" \/ ch = "G" THEN
        LET dir == ApplyMat(t.orientation, <<1, 0, 0>>)
            nx == t.x + dir[1]
            ny == t.y + dir[2]
            nz == t.z + dir[3] + extrude
        IN [t EXCEPT !.x = nx, !.y = ny, !.z = nz,
                     !.points = Append(t.points, <<nx, ny, nz>>)]
    ELSE IF ch = "+" THEN
        [t EXCEPT !.orientation = MatMul(t.orientation, PlusRot(angleDeg, twistDeg))]
    ELSE IF ch = "-" THEN
        [t EXCEPT !.orientation = MatMul(t.orientation, MinusRot(angleDeg, twistDeg))]
    ELSE t

RECURSIVE Walk3D(_, _, _, _, _)
Walk3D(t, str, angleDeg, twistDeg, extrude) ==
    IF str = <<>> THEN t
    ELSE Walk3D(Step3D(t, Head(str), angleDeg, twistDeg, extrude),
                Tail(str), angleDeg, twistDeg, extrude)

\* get3DPoints(str, angleDeg, twistDeg, extrude)
Get3DPoints(str, angleDeg, twistDeg, extrude) ==
    Walk3D([x |-> 0, y |-> 0, z |-> 0, orientation |-> IdentityMat,
            points |-> <<<<0, 0, 0>>>>],
           str, angleDeg, twistDeg, extrude).points

(***************************************************************************)
(* State                                                                   *)
(***************************************************************************)
VARIABLES
    \* DOM controls: slider values, the 3D checkbox, each control's disabled flag
    iterationInput, angleInput, twistInput, extrudeInput, enable3d, disabled,
    \* state variables of the page (lines 87-110)
    currentPoints2D, currentPoints3D, animationProgress, isAnimating,
    animationTimer, lSystemCache,
    \* 3D viewer state (lines 279-285)
    viewCenter, boundingRadius, rotX, rotY, userZoom, baseZoom, cameraDist,
    \* mouse interaction (lines 727-729)
    isDragging, lastX, lastY,
    \* use3D captured by the running animation's closure (line 781); FALSE
    \* while no run, and so no closure, is live
    use3D,
    \* the browser: timers set and not yet fired or cleared, the canvas's
    \* client size, and what the last draw() left on the canvas
    pendingTimers, canvasSize, canvas,
    \* history: animateSegment bodies executed by the run in progress
    ticks,
    \* history: what the latest event was ("start": an animate click that
    \* started a run, "ignored": an animate click that was ignored, "cancel":
    \* a cancel click that stopped a run, "other"), and after a "start" the
    \* direct draw of the state the click found
    hist,
    \* the latest direct call of a pure function and what it returned
    call

controlVars == <<iterationInput, angleInput, twistInput, extrudeInput, enable3d>>
pointVars == <<currentPoints2D, currentPoints3D>>
boundsVars == <<viewCenter, boundingRadius, baseZoom, cameraDist>>
viewVars == <<rotX, rotY, userZoom>>
mouseVars == <<isDragging, lastX, lastY>>
animVars == <<animationProgress, isAnimating, animationTimer, use3D, pendingTimers, ticks>>

vars == <<controlVars, disabled, pointVars, lSystemCache, boundsVars, viewVars,
          mouseVars, animVars, canvasSize, canvas, hist, call>>

\* controlsToDisable (lines 796 and 841)
controlsToDisable ==
    {"iterationInput", "iterationNumber", "angleInput", "angleNumber",
     "twistInput", "twistNumber", "extrudeInput", "extrudeNumber",
     "speedInput", "speedNumber", "enable3dInput", "darkModeInput",
     "colorStartInput", "colorEndInput", "gradientInput", "rainbowInput"}

\* values the sliders can be set to
IterationValues == 0..MaxIter
AngleValues == {0, 90}
TwistValues == {0}
ExtrudeValues == {1}
\* client sizes of the canvas, <<clientWidth, clientHeight>>
CanvasSizes == {<<400, 300>>}
\* pointer positions of mouse events, <<clientX, clientY>>
MousePositions == {<<0, 0>>, <<100, 75>>}
\* deltaY of wheel events: exp(-deltaY * 0.001) is 10 and 1/10
WheelDeltas == {-2303, 2303}

\* baseZoom when boundingRadius is 0: 0 * x / 0 (line 516)
NaNZoom == -1

\* 2 * pi and pi / 2 - 0.01 in units of 1e-4 rad (lines 743-746)
TwoPi == 62832
PitchLimit == 15608
\* rotY is capped at this many quarter turns either way
MaxYawQuarters == 1

(***************************************************************************)
(* Bounds of the 3D point set, and what draw() puts on the canvas          *)
(***************************************************************************)
MinOf(S) == CHOOSE m \in S : \A e \in S : m <= e
MaxOf(S) == CHOOSE m \in S : \A e \in S : m >= e
Coord(pts, k) == {pts[i][k] : i \in 1..Len(pts)}

\* the viewer's bounds as one value
BoundsNow ==
    [viewCenter |-> viewCenter, boundingRadius |-> boundingRadius,
     cameraDist |-> cameraDist, baseZoom |-> baseZoom]

\* the viewer's rotation and zoom as one value
ViewNow == [rotX |-> rotX, rotY |-> rotY, userZoom |-> userZoom]

\* the view compute3DBounds and the reset button restore (lines 520-522, 676-678)
DefaultView == [rotX |-> 0, rotY |-> 0, userZoom |-> 1000]

\* compute3DBounds: centre, radius, camera distance and base zoom (lines 484-516)
Compute3DBounds(pts, B, size) ==
    IF Len(pts) = 0 THEN
        [B EXCEPT !.viewCenter = <<0, 0, 0>>, !.boundingRadius = 4]
    ELSE
        LET minX == MinOf(Coord(pts, 1))
            maxX == MaxOf(Coord(pts, 1))
            minY == MinOf(Coord(pts, 2))
            maxY == MaxOf(Coord(pts, 2))
            minZ == MinOf(Coord(pts, 3))
            maxZ == MaxOf(Coord(pts, 3))
            dx == maxX - minX
            dy == maxY - minY
            dz == maxZ - minZ
            diag2 == dx * dx + dy * dy + dz * dz
            shorterSide == IF size[1] < size[2] THEN size[1] ELSE size[2]
        IN [viewCenter |-> <<minX + maxX, minY + maxY, minZ + maxZ>>,
            boundingRadius |-> diag2,
            cameraDist |-> 9 * diag2,
            baseZoom |-> IF diag2 = 0 THEN NaNZoom ELSE 135 * shorterSide]

\* compute3DBounds: rotation and zoom (lines 484-488, 518-523)
ViewAfterBounds(pts, preserveView, V) ==
    IF Len(pts) = 0 \/ preserveView THEN V ELSE DefaultView

\* the prefix limit of draw() (lines 403, 443)
MaxSegment(progress, totalSegments) ==
    IF progress >= 0
    THEN (IF progress < totalSegments THEN progress ELSE totalSegments)
    ELSE totalSegments

\* segments 0 .. n-1 of a point list
Segments(pts, n) == [i \in 1..n |-> <<pts[i], pts[i + 1]>>]

BlankCanvas == [mode |-> "blank", segments |-> <<>>, frame |-> <<>>]

\* draw(): the segments its loop runs over and everything that places them on
\* the canvas: in 2D the bounding box of all points and the client size
\* (lines 376-438), in 3D the viewer state read by project3D and the client
\* size (lines 441-478); which segments of the 3D prefix the viewer state lets
\* the loop stroke is Stroked3D
Draw(is3D, pts2D, pts3D, progress, B, V, size) ==
    IF ~is3D THEN
        IF Len(pts2D) < 2 THEN BlankCanvas
        ELSE [mode |-> "2D",
              segments |-> Segments(pts2D, MaxSegment(progress, Len(pts2D) - 1)),
              frame |-> <<MinOf(Coord(pts2D, 1)), MaxOf(Coord(pts2D, 1)),
                          MinOf(Coord(pts2D, 2)), MaxOf(Coord(pts2D, 2)), size>>]
    ELSE
        IF Len(pts3D) < 2 THEN BlankCanvas
        ELSE [mode |-> "3D",
              segments |-> Segments(pts3D, MaxSegment(progress, Len(pts3D) - 1)),
              frame |-> <<B, V, size>>]

\* updateFractal (lines 527-559): string, point sets and, in 3D, the bounds
UpdateFractalState(cache, B, iter, angleDeg, twistDeg, extrude, is3D, size) ==
    LET str == GenerateLSystem(cache, iter)
        p3 == Get3DPoints(str, angleDeg, twistDeg, extrude)
    IN [cache |-> CacheAfter(cache, iter),
        pts2D |-> Get2DPoints(str, angleDeg),
        pts3D |-> p3,
        B |-> IF is3D THEN Compute3DBounds(p3, B, size) ELSE B]

(***************************************************************************)
(* Handlers are written as transformers of the page state held as one      *)
(* value, so that the statements of a handler compose in program order.    *)
(***************************************************************************)
NoEvent == [event |-> "other", before |-> BlankCanvas]

StateNow ==
    [cache |-> lSystemCache, pts2D |-> currentPoints2D, pts3D |-> currentPoints3D,
     B |-> BoundsNow, V |-> ViewNow,
     animating |-> isAnimating, progress |-> animationProgress,
     timer |-> animationTimer, u3D |-> use3D, pending |-> pendingTimers,
     ticks |-> ticks, disabled |-> disabled, canvas |-> canvas,
     hist |-> NoEvent]

Commit(s) ==
    /\ lSystemCache' = s.cache
    /\ currentPoints2D' = s.pts2D
    /\ currentPoints3D' = s.pts3D
    /\ viewCenter' = s.B.viewCenter
    /\ boundingRadius' = s.B.boundingRadius
    /\ cameraDist' = s.B.cameraDist
    /\ baseZoom' = s.B.baseZoom
    /\ rotX' = s.V.rotX
    /\ rotY' = s.V.rotY
    /\ userZoom' = s.V.userZoom
    /\ isAnimating' = s.animating
    /\ animationProgress' = s.progress
    /\ animationTimer' = s.timer
    /\ use3D' = s.u3D
    /\ pendingTimers' = s.pending
    /\ ticks' = s.ticks
    /\ disabled' = s.disabled
    /\ canvas' = s.canvas
    /\ hist' = s.hist

\* the controls' values as read by parseInt / parseFloat / .checked
ControlsNow ==
    [iter |-> iterationInput, angle |-> angleInput, twist |-> twistInput,
     extrude |-> extrudeInput, is3D |-> enable3d]

\* SetDisabled passing over the speed slider
SetDisabled_SkipsSpeed(d, flag) ==
    [c \in DOMAIN d |->
        IF c \in controlsToDisable \ {"speedInput"} THEN flag ELSE d[c]]

\* ctrl.disabled = flag for every control of controlsToDisable (lines 797-799, 842-844)
SetDisabled(d, flag) ==
    [c \in DOMAIN d |-> IF c \in controlsToDisable THEN flag ELSE d[c]]

\* draw() on the state s
DrawOn(s, c, size) ==
    [s EXCEPT !.canvas = Draw(c.is3D, s.pts2D, s.pts3D, s.progress, s.B, s.V, size)]

\* updateFractal() (lines 527-564)
UpdateFractalOn(s, c, size) ==
    LET u == UpdateFractalState(s.cache, s.B, c.iter, c.angle, c.twist, c.extrude,
                                c.is3D, size)
        s1 == [s EXCEPT !.cache = u.cache, !.pts2D = u.pts2D, !.pts3D = u.pts3D,
                        !.B = u.B]
    IN IF ~s1.animating THEN DrawOn(s1, c, size) ELSE s1

\* A timer identifier is never issued twice, so a handle whose timer has fired
\* or was cleared equals no later identifier: every such handle is held as
\* StaleTimer, and live timers carry the least identifier no live timer has.
StaleTimer == -1

\* setTimeout's return value (line 810)
FreshTimer(pending) ==
    CHOOSE id \in 1..(Cardinality(pending) + 1) :
        /\ id \notin pending
        /\ \A j \in 1..(id - 1) : j \in pending

\* TimerTaken leaving the timer on the browser's list, as a repeating timer is
TimerTaken_Repeats(s, id) == s

\* the browser takes timer id off its list to run its callback
TimerTaken(s, id) ==
    [s EXCEPT !.pending = s.pending \ {id},
              !.timer = IF s.timer = id THEN StaleTimer ELSE s.timer]

\* ClearTimeout leaving the timer set
ClearTimeout_Kept(pending, id) == pending

\* clearTimeout(id) (line 834)
ClearTimeout(pending, id) == pending \ {id}

\* AlreadyAnimating with the guard of line 775 left out
AlreadyAnimating_NoGuard(animating) == FALSE

\* line 775: the click is ignored while an animation runs
AlreadyAnimating(animating) == animating

\* NextProgress revealing two segments a tick
NextProgress_ByTwo(progress) == progress + 2

\* line 806: animationProgress++
NextProgress(progress) == progress + 1

\* TickContinues comparing against one segment too many
TickContinues_OneMore(progress, totalSegments) == progress <= totalSegments + 1

\* TickContinues stopping one tick early (< for <=)
TickContinues_Strict(progress, totalSegments) == progress < totalSegments

\* line 808: another tick is scheduled
TickContinues(progress, totalSegments) == progress <= totalSegments

\* animateSegment() (lines 803-823)
AnimateSegmentOn(s, c, size) ==
    IF ~s.animating THEN s
    ELSE
        LET s1 == DrawOn(s, c, size)
            s2 == [s1 EXCEPT !.progress = NextProgress(s1.progress),
                             !.ticks = s1.ticks + 1]
            totalSegments == (IF s2.u3D THEN Len(s2.pts3D) ELSE Len(s2.pts2D)) - 1
        IN IF TickContinues(s2.progress, totalSegments) THEN
               LET id == FreshTimer(s2.pending)
               IN [s2 EXCEPT !.timer = id, !.pending = s2.pending \cup {id}]
           ELSE
               UpdateFractalOn(
                   [s2 EXCEPT !.animating = FALSE, !.progress = -1,
                              !.disabled = SetDisabled(s2.disabled, FALSE),
                              !.u3D = FALSE, !.ticks = 0],
                   c, size)

\* the animate button's click handler up to the first animateSegment() (lines 776-799)
StartAnimationOn(s, c, size) ==
    LET finalString == GenerateLSystem(s.cache, c.iter)
        p3 == Get3DPoints(finalString, c.angle, c.twist, c.extrude)
        s1 == [s EXCEPT !.cache = CacheAfter(s.cache, c.iter),
                        !.pts2D = Get2DPoints(finalString, c.angle),
                        !.pts3D = p3]
        s2 == IF c.is3D
              THEN [s1 EXCEPT !.B = Compute3DBounds(p3, s1.B, size),
                              !.V = ViewAfterBounds(p3, FALSE, s1.V)]
              ELSE s1
    IN [s2 EXCEPT !.animating = TRUE, !.progress = 0, !.ticks = 0,
                  !.u3D = c.is3D, !.disabled = SetDisabled(s2.disabled, TRUE),
                  !.hist = [event |-> "start",
                            before |-> Draw(c.is3D, s.pts2D, s.pts3D, -1, s.B, s.V,
                                            size)]]

\* the cancel button's click handler past its guard (lines 831-846)
CancelOn(s, c, size) ==
    LET s1 == [s EXCEPT !.animating = FALSE, !.u3D = FALSE, !.ticks = 0,
                        !.hist.event = "cancel"]
        s2 == IF s1.timer # 0
              THEN [s1 EXCEPT !.pending = ClearTimeout(s1.pending, s1.timer),
                              !.timer = 0]
              ELSE s1
        s3 == [s2 EXCEPT !.progress = -1,
                         !.disabled = SetDisabled(s2.disabled, FALSE)]
    IN UpdateFractalOn(s3, c, size)

(***************************************************************************)
(* Initial states                                                          *)
(***************************************************************************)
\* every element a handler is attached to that carries a disabled flag
Controls == controlsToDisable \cup {"resetBtn", "animateBtn", "cancelBtn"}

NoCall == [fn |-> "none"]

\* the declarations of lines 87-110, 279-285 and 727-729, before any call,
\* with the controls at their least values
Declared ==
    /\ iterationInput = 0
    /\ angleInput = 0
    /\ twistInput = 0
    /\ extrudeInput = 1
    /\ enable3d = FALSE
    /\ disabled = [c \in Controls |-> FALSE]
    /\ currentPoints2D = <<>>
    /\ currentPoints3D = <<>>
    /\ animationProgress = -1
    /\ isAnimating = FALSE
    /\ animationTimer = 0
    /\ lSystemCache = <<>>
    /\ viewCenter = <<0, 0, 0>>
    /\ boundingRadius = 4
    /\ rotX = 0
    /\ rotY = 0
    /\ userZoom = 1000
    /\ baseZoom = 100
    /\ cameraDist = 4
    /\ isDragging = FALSE
    /\ lastX = 0
    /\ lastY = 0
    /\ use3D = FALSE
    /\ pendingTimers = {}
    /\ canvasSize \in CanvasSizes
    /\ canvas = BlankCanvas
    /\ ticks = 0
    /\ hist = NoEvent

\* the page once its DOMContentLoaded handler has returned: the declarations,
\* then resizeCanvas() and updateFractal() (lines 769-770)
Init ==
    /\ iterationInput \in IterationValues
    /\ angleInput \in AngleValues
    /\ twistInput \in TwistValues
    /\ extrudeInput \in ExtrudeValues
    /\ enable3d \in BOOLEAN
    /\ canvasSize \in CanvasSizes
    /\ isDragging = FALSE
    /\ lastX = 0
    /\ lastY = 0
    /\ call = NoCall
    /\ LET s0 == [cache |-> <<>>, pts2D |-> <<>>, pts3D |-> <<>>,
                  B |-> [viewCenter |-> <<0, 0, 0>>, boundingRadius |-> 4,
                         cameraDist |-> 4, baseZoom |-> 100],
                  V |-> DefaultView,
                  animating |-> FALSE, progress |-> -1, timer |-> 0,
                  u3D |-> FALSE, pending |-> {}, ticks |-> 0,
                  disabled |-> [c \in Controls |-> FALSE],
                  canvas |-> BlankCanvas, hist |-> NoEvent]
           c == [iter |-> iterationInput, angle |-> angleInput,
                 twist |-> twistInput, extrude |-> extrudeInput, is3D |-> enable3d]
           s1 == UpdateFractalOn(DrawOn(s0, c, canvasSize), c, canvasSize)
       IN /\ lSystemCache = s1.cache
          /\ currentPoints2D = s1.pts2D
          /\ currentPoints3D = s1.pts3D
          /\ viewCenter = s1.B.viewCenter
          /\ boundingRadius = s1.B.boundingRadius
          /\ cameraDist = s1.B.cameraDist
          /\ baseZoom = s1.B.baseZoom
          /\ rotX = s1.V.rotX
          /\ rotY = s1.V.rotY
          /\ userZoom = s1.V.userZoom
          /\ isAnimating = s1.animating
          /\ animationProgress = s1.progress
          /\ animationTimer = s1.timer
          /\ use3D = s1.u3D
          /\ pendingTimers = s1.pending
          /\ ticks = s1.ticks
          /\ disabled = s1.disabled
          /\ canvas = s1.canvas
          /\ hist = s1.hist

(***************************************************************************)
(* Event handlers                                                          *)
(***************************************************************************)
\* 'input' on the iteration slider (lines 567, 580-582)
IterationInput(v) ==
    /\ ~disabled["iterationInput"]
    /\ iterationInput' = v
    /\ Commit(UpdateFractalOn(StateNow, [ControlsNow EXCEPT !.iter = v], canvasSize))
    /\ UNCHANGED <<angleInput, twistInput, extrudeInput, enable3d, mouseVars,
                   canvasSize, call>>

\* 'input' on the angle slider (lines 568, 591-593)
AngleInput(v) ==
    /\ ~disabled["angleInput"]
    /\ angleInput' = v
    /\ Commit(UpdateFractalOn(StateNow, [ControlsNow EXCEPT !.angle = v], canvasSize))
    /\ UNCHANGED <<iterationInput, twistInput, extrudeInput, enable3d, mouseVars,
                   canvasSize, call>>

\* 'input' on the twist slider (lines 569, 602-604)
TwistInput(v) ==
    /\ ~disabled["twistInput"]
    /\ twistInput' = v
    /\ Commit(UpdateFractalOn(StateNow, [ControlsNow EXCEPT !.twist = v], canvasSize))
    /\ UNCHANGED <<iterationInput, angleInput, extrudeInput, enable3d, mouseVars,
                   canvasSize, call>>

\* 'input' on the extrusion slider (lines 570, 613-615)
ExtrudeInput(v) ==
    /\ ~disabled["extrudeInput"]
    /\ extrudeInput' = v
    /\ Commit(UpdateFractalOn(StateNow, [ControlsNow EXCEPT !.extrude = v], canvasSize))
    /\ UNCHANGED <<iterationInput, angleInput, twistInput, enable3d, mouseVars,
                   canvasSize, call>>

\* 'change' on the 3D checkbox (lines 659-665)
Enable3dChange ==
    /\ ~disabled["enable3dInput"]
    /\ enable3d' = ~enable3d
    /\ LET c == [ControlsNow EXCEPT !.is3D = ~enable3d]
           s == StateNow
           s1 == IF c.is3D
                 THEN [s EXCEPT !.B = Compute3DBounds(s.pts3D, s.B, canvasSize),
                                !.V = ViewAfterBounds(s.pts3D, FALSE, s.V)]
                 ELSE s
       IN Commit(DrawOn(s1, c, canvasSize))
    /\ UNCHANGED <<iterationInput, angleInput, twistInput, extrudeInput, mouseVars,
                   canvasSize, call>>

\* 'click' on the reset-view button (lines 674-681)
ResetViewClick ==
    /\ IF enable3d
       THEN Commit(DrawOn([StateNow EXCEPT !.V = DefaultView], ControlsNow, canvasSize))
       ELSE Commit(StateNow)
    /\ UNCHANGED <<controlVars, mouseVars, canvasSize, call>>

\* 'mousedown' on the canvas (lines 730-735)
MouseDown(pos) ==
    /\ IF ~enable3d THEN UNCHANGED mouseVars
       ELSE /\ isDragging' = TRUE
            /\ lastX' = pos[1]
            /\ lastY' = pos[2]
    /\ Commit(StateNow)
    /\ UNCHANGED <<controlVars, canvasSize, call>>

\* rotX clamped to the pitch limit (lines 746-748)
ClampPitch(r) ==
    IF r > PitchLimit THEN PitchLimit
    ELSE IF r < -PitchLimit THEN -PitchLimit
    ELSE r

\* (d / extent) * 2 * Math.PI in units of 1e-4 rad (lines 743-744)
DragAngle(d, extent) == (d * TwoPi) \div extent

\* 'mousemove' on the window (lines 736-750)
MouseMove(pos) ==
    /\ IF ~enable3d \/ ~isDragging THEN
           /\ UNCHANGED mouseVars
           /\ Commit(StateNow)
       ELSE
           LET dx == pos[1] - lastX
               dy == pos[2] - lastY
               newY == rotY + DragAngle(dx, canvasSize[1])
               newX == ClampPitch(rotX + DragAngle(dy, canvasSize[2]))
           IN /\ newY <= MaxYawQuarters * 15708
              /\ newY >= -(MaxYawQuarters * 15708)
              /\ lastX' = pos[1]
              /\ lastY' = pos[2]
              /\ UNCHANGED isDragging
              /\ Commit(DrawOn([StateNow EXCEPT !.V.rotY = newY, !.V.rotX = newX],
                               ControlsNow, canvasSize))
    /\ UNCHANGED <<controlVars, canvasSize, call>>

\* 'mouseup' on the window (lines 751-753)
MouseUp ==
    /\ isDragging' = FALSE
    /\ Commit(StateNow)
    /\ UNCHANGED <<controlVars, lastX, lastY, canvasSize, call>>

\* userZoom * Math.exp(-deltaY * 0.001) for the wheel deltas of WheelDeltas (lines 761-762)
ZoomBy(zoom, deltaY) ==
    IF deltaY = -2303 THEN zoom * 10
    ELSE IF deltaY = 2303 THEN zoom \div 10
    ELSE zoom

\* ClampZoom without the lower limit
ClampZoom_NoFloor(z) == IF z > 10000 THEN 10000 ELSE z

\* Math.max(0.1, Math.min(10, userZoom)) (line 764)
ClampZoom(z) == IF z > 10000 THEN 10000 ELSE IF z < 100 THEN 100 ELSE z

\* 'wheel' on the canvas (lines 757-766)
Wheel(deltaY) ==
    /\ IF ~enable3d THEN Commit(StateNow)
       ELSE Commit(DrawOn([StateNow EXCEPT
                              !.V.userZoom = ClampZoom(ZoomBy(userZoom, deltaY))],
                          ControlsNow, canvasSize))
    /\ UNCHANGED <<controlVars, mouseVars, canvasSize, call>>

\* 'resize' on the window: resizeCanvas() (lines 113-123)
Resize(size) ==
    /\ canvasSize' = size
    /\ Commit(DrawOn(StateNow, ControlsNow, size))
    /\ UNCHANGED <<controlVars, mouseVars, call>>

\* 'click' on the animate button (lines 773-826)
AnimateClick ==
    /\ IF AlreadyAnimating(isAnimating)
       THEN Commit([StateNow EXCEPT !.hist.event = "ignored"])
       ELSE Commit(AnimateSegmentOn(StartAnimationOn(StateNow, ControlsNow, canvasSize),
                                    ControlsNow, canvasSize))
    /\ UNCHANGED <<controlVars, mouseVars, canvasSize, call>>

\* a timer set at line 810 fires: the browser runs animateSegment()
TimerFire(id) ==
    /\ id \in pendingTimers
    /\ Commit(AnimateSegmentOn(TimerTaken(StateNow, id), ControlsNow, canvasSize))
    /\ UNCHANGED <<controlVars, mouseVars, canvasSize, call>>

\* 'click' on the cancel button (lines 829-847)
CancelClick ==
    /\ IF ~isAnimating THEN Commit(StateNow)
       ELSE Commit(CancelOn(StateNow, ControlsNow, canvasSize))
    /\ UNCHANGED <<controlVars, mouseVars, canvasSize, call>>

\* what the user has typed into a number field when its 'change' event
\* fires, as its characters
IterationTexts == {<<"x">>, <<"-", "1">>, <<"0">>, <<"1">>, <<"9">>}
AngleTexts == {<<"x">>, <<"-", "9", "0">>, <<"0">>, <<"9", "0">>, <<"1", "8", "0">>}
TwistTexts == {<<"x">>, <<"0">>, <<"9", "0">>}
ExtrudeTexts == {<<"x">>, <<"1">>, <<"0">>, <<"9">>}

Digits == {"0", "1", "2", "3", "4", "5", "6", "7", "8", "9"}

DigitValue(ch) ==
    CASE ch = "0" -> 0 [] ch = "1" -> 1 [] ch = "2" -> 2 [] ch = "3" -> 3
      [] ch = "4" -> 4 [] ch = "5" -> 5 [] ch = "6" -> 6 [] ch = "7" -> 7
      [] ch = "8" -> 8 [] ch = "9" -> 9

RECURSIVE DigitsPrefix(_)
\* the leading decimal digits of a text
DigitsPrefix(text) ==
    IF text = <<>> \/ Head(text) \notin Digits THEN <<>>
    ELSE <<Head(text)>> \o DigitsPrefix(Tail(text))

RECURSIVE DecimalValue(_, _)
\* the number the digits ds continue, acc being the value of those before them
DecimalValue(acc, ds) ==
    IF ds = <<>> THEN acc
    ELSE DecimalValue(10 * acc + DigitValue(Head(ds)), Tail(ds))

\* parseInt(text, 10) (lines 574, 625): an optional sign, then decimal digits
\* up to the first other character; <<>> is NaN, <<n>> the number n
ParseInt(text) ==
    LET signed == text # <<>> /\ Head(text) \in {"-", "+"}
        ds == DigitsPrefix(IF signed THEN Tail(text) ELSE text)
    IN IF ds = <<>> THEN <<>>
       ELSE IF signed /\ Head(text) = "-" THEN <<-DecimalValue(0, ds)>>
       ELSE <<DecimalValue(0, ds)>>

\* parseFloat(text) (lines 585, 596, 607) on a text with no '.' and no exponent
ParseFloat(text) == ParseInt(text)

\* the min and max attributes of a slider: the ends of its range of values
SliderMin(values) == MinOf(values)
SliderMax(values) == MaxOf(values)

\* Math.max(min, Math.min(max, val)) (lines 576, 587, 598, 609)
ClampToRange(val, lo, hi) ==
    LET capped == IF val < hi THEN val ELSE hi
    IN IF capped > lo THEN capped ELSE lo

\* 'change' on the iteration number field (lines 573-579)
IterationNumberChange(text) ==
    /\ ~disabled["iterationNumber"]
    /\ LET val == ParseInt(text)
       IN IF val = <<>> THEN
              /\ UNCHANGED iterationInput
              /\ Commit(StateNow)
          ELSE
              LET v == ClampToRange(val[1], SliderMin(IterationValues),
                                    SliderMax(IterationValues))
              IN /\ iterationInput' = v
                 /\ Commit(UpdateFractalOn(StateNow, [ControlsNow EXCEPT !.iter = v],
                                           canvasSize))
    /\ UNCHANGED <<angleInput, twistInput, extrudeInput, enable3d, mouseVars,
                   canvasSize, call>>

\* 'change' on the angle number field (lines 584-590)
AngleNumberChange(text) ==
    /\ ~disabled["angleNumber"]
    /\ LET val == ParseFloat(text)
       IN IF val = <<>> THEN
              /\ UNCHANGED angleInput
              /\ Commit(StateNow)
          ELSE
              LET v == ClampToRange(val[1], SliderMin(AngleValues),
                                    SliderMax(AngleValues))
              IN /\ angleInput' = v
                 /\ Commit(UpdateFractalOn(StateNow, [ControlsNow EXCEPT !.angle = v],
                                           canvasSize))
    /\ UNCHANGED <<iterationInput, twistInput, extrudeInput, enable3d, mouseVars,
                   canvasSize, call>>

\* 'change' on the twist number field (lines 595-601)
TwistNumberChange(text) ==
    /\ ~disabled["twistNumber"]
    /\ LET val == ParseFloat(text)
       IN IF val = <<>> THEN
              /\ UNCHANGED twistInput
              /\ Commit(StateNow)
          ELSE
              LET v == ClampToRange(val[1], SliderMin(TwistValues),
                                    SliderMax(TwistValues))
              IN /\ twistInput' = v
                 /\ Commit(UpdateFractalOn(StateNow, [ControlsNow EXCEPT !.twist = v],
                                           canvasSize))
    /\ UNCHANGED <<iterationInput, angleInput, extrudeInput, enable3d, mouseVars,
                   canvasSize, call>>

\* 'change' on the extrusion number field (lines 606-612)
ExtrudeNumberChange(text) ==
    /\ ~disabled["extrudeNumber"]
    /\ LET val == ParseFloat(text)
       IN IF val = <<>> THEN
              /\ UNCHANGED extrudeInput
              /\ Commit(StateNow)
          ELSE
              LET v == ClampToRange(val[1], SliderMin(ExtrudeValues),
                                    SliderMax(ExtrudeValues))
              IN /\ extrudeInput' = v
                 /\ Commit(UpdateFractalOn(StateNow, [ControlsNow EXCEPT !.extrude = v],
                                           canvasSize))
    /\ UNCHANGED <<iterationInput, angleInput, twistInput, enable3d, mouseVars,
                   canvasSize, call>>

Next ==
    \/ \E v \in IterationValues : IterationInput(v)
    \/ \E text \in IterationTexts : IterationNumberChange(text)
    \/ \E text \in AngleTexts : AngleNumberChange(text)
    \/ \E text \in TwistTexts : TwistNumberChange(text)
    \/ \E text \in ExtrudeTexts : ExtrudeNumberChange(text)
    \/ \E v \in AngleValues : AngleInput(v)
    \/ \E v \in TwistValues : TwistInput(v)
    \/ \E v \in ExtrudeValues : ExtrudeInput(v)
    \/ Enable3dChange
    \/ ResetViewClick
    \/ \E pos \in MousePositions : MouseDown(pos)
    \/ \E pos \in MousePositions : MouseMove(pos)
    \/ MouseUp
    \/ \E d \in WheelDeltas : Wheel(d)
    \/ \E size \in CanvasSizes : Resize(size)
    \/ AnimateClick
    \/ \E id \in pendingTimers : TimerFire(id)
    \/ CancelClick

Spec == Init /\ [][Next]_vars

(***************************************************************************)
(* generateLSystem called directly, with any arguments in any order        *)
(***************************************************************************)
\* arguments of the direct calls
GenArgs == (-2)..MaxN

\* generateLSystem(n): nothing in lines 139-153 throws, so the call returns
CallGenerateLSystem(n) ==
    /\ call' = [fn |-> "generateLSystem", n |-> n,
                hit |-> CacheHit(lSystemCache, n), threw |-> FALSE,
                ret |-> GenerateLSystem(lSystemCache, n)]
    /\ lSystemCache' = CacheAfter(lSystemCache, n)
    /\ UNCHANGED <<controlVars, disabled, pointVars, boundsVars, viewVars, mouseVars,
                   animVars, canvasSize, canvas, hist>>

GenInit == Declared /\ call = NoCall

GenNext == \E n \in GenArgs : CallGenerateLSystem(n)

SpecGen == GenInit /\ [][GenNext]_vars

(***************************************************************************)
(* get2DPoints and get3DPoints called directly on any string               *)
(***************************************************************************)
\* every string of at most MaxLen characters
ProjStrings == UNION {[1..k -> Alphabet] : k \in 0..MaxLen}
ProjAngles == {0, 90, 180, -90}
ProjTwists == {0, 90}
ProjExtrudes == {0, 1}

\* get2DPoints(str, angleDeg) on the inputs held in call
CallGet2DPoints ==
    /\ call.fn = "project"
    /\ call.pts2D = <<>>
    /\ call' = [call EXCEPT !.pts2D = Get2DPoints(call.str, call.angle)]
    /\ UNCHANGED <<controlVars, disabled, pointVars, lSystemCache, boundsVars,
                   viewVars, mouseVars, animVars, canvasSize, canvas, hist>>

\* get3DPoints(str, angleDeg, twistDeg, extrude) on the inputs held in call
CallGet3DPoints ==
    /\ call.fn = "project"
    /\ call.pts3D = <<>>
    /\ call' = [call EXCEPT
                   !.pts3D = Get3DPoints(call.str, call.angle, call.twist, call.extrude)]
    /\ UNCHANGED <<controlVars, disabled, pointVars, lSystemCache, boundsVars,
                   viewVars, mouseVars, animVars, canvasSize, canvas, hist>>

ProjInit ==
    /\ Declared
    /\ call \in [fn : {"project"}, str : ProjStrings, angle : ProjAngles,
                 twist : ProjTwists, extrude : ProjExtrudes,
                 pts2D : {<<>>}, pts3D : {<<>>}]

ProjNext == CallGet2DPoints \/ CallGet3DPoints

SpecProj == ProjInit /\ [][ProjNext]_vars

(***************************************************************************)
(* Colour of a segment, as draw() chooses it                               *)
(***************************************************************************)
\* Round cutting the fraction off instead of rounding
Round_Truncates(num, den) == num \div den

\* Math.round(num / den) for den > 0: the nearest integer, halves upwards
Round(num, den) == (2 * num + den) \div (2 * den)

\* a colour input's value "#rrggbb" is held as its six hexadecimal digits;
\* parseInt(h, 16) (line 332)
ParseHex(digits) ==
    digits[1] * 1048576 + digits[2] * 65536 + digits[3] * 4096
        + digits[4] * 256 + digits[5] * 16 + digits[6]

\* hexToRgb (lines 329-337)
HexToRgb(hex) ==
    LET bigint == ParseHex(hex)
    IN <<(bigint \div 65536) % 256, (bigint \div 256) % 256, bigint % 256>>

\* hue2rgb (lines 353-360) at t = num / den, den > 0; the result is a
\* fraction over den, returned as its numerator
Hue2Rgb(p, q, num, den) ==
    LET t1 == IF num < 0 THEN num + den ELSE num
        t2 == IF t1 > den THEN t1 - den ELSE t1
    IN IF 6 * t2 < den THEN p * den + (q - p) * 6 * t2
       ELSE IF 2 * t2 < den THEN q * den
       ELSE IF 3 * t2 < 2 * den THEN p * den + (q - p) * (2 * den - 3 * t2) * 2
       ELSE p * den

\* hslToRgb(h, 1, 0.5) (lines 347-368) at h = 360 * hNum / hDen with
\* 0 <= hNum < hDen: s is not 0, q = l + s - l * s = 1 and p = 2 * l - q = 0
HslToRgb(hNum, hDen) ==
    LET den == 3 * hDen
        h == 3 * hNum
    IN <<Round(255 * Hue2Rgb(0, 1, h + hDen, den), den),
         Round(255 * Hue2Rgb(0, 1, h, den), den),
         Round(255 * Hue2Rgb(0, 1, h - hDen, den), den)>>

\* the gradient branch (lines 423-426, 460-463): t = i / totalSegments
GradientRgb(startRGB, endRGB, i, totalSegments) ==
    [k \in 1..3 |->
        Round(startRGB[k] * totalSegments + (endRGB[k] - startRGB[k]) * i,
              totalSegments)]

\* RainbowFirst with the gradient branch tested before the rainbow branch
RainbowFirst_GradientFirst(rainbow, gradient) ==
    IF gradient THEN "gradient" ELSE IF rainbow THEN "rainbow" ELSE "solid"

\* the order of the tests of lines 418-431 and 455-468
RainbowFirst(rainbow, gradient) ==
    IF rainbow THEN "rainbow" ELSE IF gradient THEN "gradient" ELSE "solid"

\* the colour of segment i in the 2D branch of draw() (lines 404-431)
SegmentColour2D(i, totalSegments, startColor, endColor, gradient, rainbow) ==
    LET startRGB == HexToRgb(startColor)
        endRGB == HexToRgb(endColor)
        branch == RainbowFirst(rainbow /\ totalSegments > 0,
                               gradient /\ totalSegments > 0)
    IN CASE branch = "rainbow" -> HslToRgb(i, totalSegments)
         [] branch = "gradient" -> GradientRgb(startRGB, endRGB, i, totalSegments)
         [] OTHER -> startRGB

\* the colour of segment i in the 3D branch of draw() (lines 444-468)
SegmentColour3D(i, totalSegments, startColor, endColor, gradient, rainbow) ==
    LET startRGB3 == HexToRgb(startColor)
        endRGB3 == HexToRgb(endColor)
        branch == RainbowFirst(rainbow /\ totalSegments > 0,
                               gradient /\ totalSegments > 0)
    IN CASE branch = "rainbow" -> HslToRgb(i, totalSegments)
         [] branch = "gradient" -> GradientRgb(startRGB3, endRGB3, i, totalSegments)
         [] OTHER -> startRGB3

\* the most segments of a curve whose colours are computed
MaxSegs == 6

\* values of the two colour inputs
ColourValues ==
    {<<0, 0, 0, 0, 0, 0>>, <<3, 3, 6, 6, 12, 12>>, <<15, 15, 15, 15, 15, 15>>,
     <<0, 0, 0, 0, 0, 1>>, <<0, 0, 0, 0, 0, 3>>, <<8, 0, 0, 0, 15, 14>>}

\* the colour of one segment of draw(), in the branch call.is3D names
CallSegmentColour ==
    /\ call.fn = "colour"
    /\ call.rgb = <<>>
    /\ call' = [call EXCEPT !.rgb =
                   IF call.is3D
                   THEN SegmentColour3D(call.i, call.total, call.startColor,
                                        call.endColor, call.useGradient,
                                        call.useRainbow)
                   ELSE SegmentColour2D(call.i, call.total, call.startColor,
                                        call.endColor, call.useGradient,
                                        call.useRainbow)]
    /\ UNCHANGED <<controlVars, disabled, pointVars, lSystemCache, boundsVars,
                   viewVars, mouseVars, animVars, canvasSize, canvas, hist>>

\* a drawn segment has an index below the segment count (lines 409, 449)
ColourInit ==
    /\ Declared
    /\ call \in [fn : {"colour"}, is3D : BOOLEAN, useRainbow : BOOLEAN,
                 useGradient : BOOLEAN, startColor : ColourValues,
                 endColor : ColourValues, total : 1..MaxSegs,
                 i : 0..(MaxSegs - 1), rgb : {<<>>}]
    /\ call.i < call.total

ColourNext == CallSegmentColour

SpecColour == ColourInit /\ [][ColourNext]_vars

(***************************************************************************)
(* project3D and the 3D branch of draw(), called on any viewer state       *)
(***************************************************************************)
\* Math.cos and Math.sin of a view angle held in units of 1e-4 rad, at whole
\* quarter turns (15708 is pi / 2 in these units)
RadCos(r) == Cos((r \div 15708) * 90)
RadSin(r) == Sin((r \div 15708) * 90)

\* getViewRotation (lines 288-299)
GetViewRotation(V) ==
    LET cx == RadCos(V.rotX)
        sx == RadSin(V.rotX)
        cy == RadCos(V.rotY)
        sy == RadSin(V.rotY)
    IN <<<<cy, 0, sy>>,
         <<sx * sy, cx, -(sx * cy)>>,
         <<-(cx * sy), sx, cx * cy>>>>

\* denom > 0.001 (lines 319-321) with rz2 = 2 * rz and camera2 = (2 * cameraDist)^2,
\* both integers below 249: sqrt(camera2) - rz2 > 0.002
DenomPositive(camera2, rz2) == rz2 < 0 \/ camera2 > rz2 * rz2

\* project3D (lines 308-326): the depth (doubled, as viewCenter is) and the
\* validity flag; the screen position x, y enters no test and is left out
Project3D(pt, B, V) ==
    LET d == <<2 * pt[1] - B.viewCenter[1], 2 * pt[2] - B.viewCenter[2],
               2 * pt[3] - B.viewCenter[3]>>
        R == GetViewRotation(V)
        rz == R[3][1] * d[1] + R[3][2] * d[2] + R[3][3] * d[3]
    IN [z |-> rz, valid |-> DenomPositive(B.cameraDist, rz)]

\* SkipSegment skipping a segment only when both its ends are invalid
SkipSegment_BothInvalid(p1, p2) == ~p1.valid /\ ~p2.valid

\* line 452: if (!p1.valid || !p2.valid) continue
SkipSegment(p1, p2) == ~p1.valid \/ ~p2.valid

\* the loop of the 3D branch of draw() (lines 441-478): the indexes i of the
\* segments it strokes
Stroked3D(pts, progress, B, V) ==
    IF Len(pts) < 2 THEN {}
    ELSE {i \in 0..(MaxSegment(progress, Len(pts) - 1) - 1) :
             ~SkipSegment(Project3D(pts[i + 1], B, V), Project3D(pts[i + 2], B, V))}

\* points, camera distances (as (2 * cameraDist)^2), view angles and prefix
\* limits of the direct calls
ViewPoints == {<<0, 0, 0>>, <<0, 0, 2>>, <<2, 0, 0>>, <<0, 2, 0>>}
ViewPointLists == [1..3 -> ViewPoints]
ViewCameras == {0, 4, 16, 36}
ViewPitches == {0, 15708}
ViewYaws == {0, 15708, -15708, 31416}
ViewProgress == -1..3

NotDrawn == {-1}

\* project3D on every point of call.pts
CallProject3D ==
    /\ call.fn = "view"
    /\ call.proj = <<>>
    /\ call' = [call EXCEPT !.proj =
                   [i \in 1..Len(call.pts) |-> Project3D(call.pts[i], call.B, call.V)]]
    /\ UNCHANGED <<controlVars, disabled, pointVars, lSystemCache, boundsVars,
                   viewVars, mouseVars, animVars, canvasSize, canvas, hist>>

\* the 3D branch of draw() on call.pts with animationProgress = call.progress
CallDraw3D ==
    /\ call.fn = "view"
    /\ call.stroked = NotDrawn
    /\ call' = [call EXCEPT !.stroked =
                   Stroked3D(call.pts, call.progress, call.B, call.V)]
    /\ UNCHANGED <<controlVars, disabled, pointVars, lSystemCache, boundsVars,
                   viewVars, mouseVars, animVars, canvasSize, canvas, hist>>

ViewInit ==
    /\ Declared
    /\ call \in [fn : {"view"}, pts : ViewPointLists,
                 B : [viewCenter : {<<0, 0, 0>>, <<2, 0, 2>>},
                      boundingRadius : {4}, cameraDist : ViewCameras,
                      baseZoom : {100}],
                 V : [rotX : ViewPitches, rotY : ViewYaws, userZoom : {1000}],
                 progress : ViewProgress, proj : {<<>>}, stroked : {NotDrawn}]

ViewNext == CallProject3D \/ CallDraw3D

SpecView == ViewInit /\ [][ViewNext]_vars

(***************************************************************************)
(* Properties of the string generator (checked under SpecGen)              *)
(***************************************************************************)
RECURSIVE Pow(_, _)
Pow(b, e) == IF e = 0 THEN 1 ELSE b * Pow(b, e - 1)

\* C6 as stated: for every n >= 0 the string generateLSystem(n) returns has
\* length 3^n.
C6_LengthPowerOfThree ==
    (call.fn = "generateLSystem" /\ call.n >= 0)
        => Len(call.ret) = Pow(3, call.n)

\* C6 amended: for every n >= 0 the string generateLSystem(n) returns has
\* length 2^(n+1) - 1 (a forward-draw symbol expands to 3 symbols, a turn
\* symbol is copied); length(0) = 1, length(1) = 3, length(2) = 7.
C6_LengthTwoPower ==
    (call.fn = "generateLSystem" /\ call.n >= 0)
        => Len(call.ret) = Pow(2, call.n + 1) - 1

C6_Witness ==
    call.fn = "generateLSystem" /\ call.n = 2 /\ Len(call.ret) = 7

\* C8: after any sequence of calls, generateLSystem(n) returns the string a
\* first, uncached computation for n yields, and no reachable content of
\* lSystemCache changes the result for any n.
C8_MemoizationDeterministic ==
    /\ call.fn = "generateLSystem" => call.ret = ComputeLSystem(call.n)
    /\ \A n \in GenArgs : GenerateLSystem(lSystemCache, n) = ComputeLSystem(n)

C8_Witness ==
    /\ call.fn = "generateLSystem" /\ call.hit /\ call.n = 1
    /\ {-1, 1, 2} \subseteq DOMAIN lSystemCache

\* C9: for every n < 0, generateLSystem(n) signals an error instead of
\* returning a string, and leaves the cache unchanged (no entry for n).
C9_NegativeRejected ==
    (call.fn = "generateLSystem" /\ call.n < 0)
        => (call.threw /\ call.n \notin DOMAIN lSystemCache)

(***************************************************************************)
(* Properties of the projectors (checked under SpecProj)                   *)
(***************************************************************************)
RECURSIVE CountForward(_)
\* the number of F and G characters of a string
CountForward(str) ==
    IF str = <<>> THEN 0
    ELSE (IF Head(str) \in {"F", "G"} THEN 1 ELSE 0) + CountForward(Tail(str))

\* C7: for every string and angle, the point lists of get2DPoints and of
\* get3DPoints start at the origin and hold (number of F and G) + 1 points.
C7_PointCount ==
    call.fn = "project" =>
        /\ call.pts2D # <<>> =>
              /\ call.pts2D[1] = <<0, 0>>
              /\ Len(call.pts2D) = CountForward(call.str) + 1
        /\ call.pts3D # <<>> =>
              /\ call.pts3D[1] = <<0, 0, 0>>
              /\ Len(call.pts3D) = CountForward(call.str) + 1

C7_Witness ==
    /\ call.fn = "project"
    /\ call.str = <<"F", "X", "G">>
    /\ call.angle = 90
    /\ Len(call.pts2D) = 3
    /\ Len(call.pts3D) = 3

\* C10: with twist = 0 and extrusion = 0, the 3D point list with its third
\* coordinate dropped equals the 2D point list point for point, and every
\* third coordinate is 0.
C10_FlatEquals2D ==
    (/\ call.fn = "project"
     /\ call.twist = 0
     /\ call.extrude = 0
     /\ call.pts2D # <<>>
     /\ call.pts3D # <<>>)
        => /\ [i \in 1..Len(call.pts3D) |-> <<call.pts3D[i][1], call.pts3D[i][2]>>]
                 = call.pts2D
           /\ \A i \in 1..Len(call.pts3D) : call.pts3D[i][3] = 0

C10_Witness ==
    /\ call.fn = "project"
    /\ call.twist = 0
    /\ call.extrude = 0
    /\ call.angle = 90
    /\ call.str = <<"F", "-", "G">>
    /\ call.pts2D = <<<<0, 0>>, <<1, 0>>, <<1, -1>>>>
    /\ call.pts3D = <<<<0, 0, 0>>, <<1, 0, 0>>, <<1, -1, 0>>>>

(***************************************************************************)
(* Properties of the animation driver (checked under Spec and LiveSpec)    *)
(***************************************************************************)
\* a timer of the animation fires
Tick == \E id \in pendingTimers : TimerFire(id)

\* Every timer set is eventually run by the browser: weak fairness of Tick.
\* WF_vars(Tick) is []<>~(ENABLED <<Tick>>_vars) \/ []<><<Tick>>_vars.  The only
\* guard of TimerFire(id) is id \in pendingTimers, and a Tick step always
\* changes vars (it takes a timer off pendingTimers, or advances ticks when it
\* sets the next one), so ENABLED <<Tick>>_vars is pendingTimers # {}; the
\* fairness condition is written with that state predicate in place.
TimersFire == []<>(pendingTimers = {}) \/ []<><<Tick>>_vars

LiveSpec == Spec /\ TimersFire

\* every variable of the page and of the browser, the histories left out
pageVars ==
    <<controlVars, disabled, pointVars, lSystemCache, boundsVars, viewVars,
      mouseVars, animationProgress, isAnimating, animationTimer, use3D,
      pendingTimers, canvasSize, canvas>>

\* the segment count of the point set the run in progress animates (line 807)
TotalSegments == (IF use3D THEN Len(currentPoints3D) ELSE Len(currentPoints2D)) - 1

\* what a direct, non-animated draw of the parameters c puts on the canvas
\* with the viewer at B and V
FullStaticOf(c, B, V, size) ==
    LET str == ComputeLSystem(c.iter)
    IN Draw(c.is3D, Get2DPoints(str, c.angle),
            Get3DPoints(str, c.angle, c.twist, c.extrude), -1, B, V, size)

\* the canvas after the step is a direct draw of the parameters and the
\* viewer as they are after the step
CanvasFullStaticNext ==
    canvas' = FullStaticOf(
                 [iter |-> iterationInput', angle |-> angleInput',
                  twist |-> twistInput', extrude |-> extrudeInput',
                  is3D |-> enable3d'],
                 [viewCenter |-> viewCenter', boundingRadius |-> boundingRadius',
                  cameraDist |-> cameraDist', baseZoom |-> baseZoom'],
                 [rotX |-> rotX', rotY |-> rotY', userZoom |-> userZoom'],
                 canvasSize')

AllControlsEnabledNext == \A c \in controlsToDisable : ~disabled'[c]

AllControlsEnabled == \A c \in controlsToDisable : ~disabled[c]

\* C1: an animate click while an animation runs changes nothing: progress,
\* timers, point sets, view, controls and canvas all stay as they are.
C1_StartWhileRunningNoOp ==
    [][(isAnimating /\ AnimateClick) => UNCHANGED pageVars]_vars

C1_Witness ==
    /\ isAnimating
    /\ hist.event = "ignored"
    /\ animationProgress = 2
    /\ pendingTimers # {}
    /\ enable3d
    /\ rotX # 0

\* C2: a cancel click while running clears the pending timer, enables every
\* control, sets progress to -1 and redraws the full static curve, all within
\* the handler; while idle no timer is pending and progress stays -1, and
\* only an animate click starts a run again.
C2_CancelImmediate ==
    [][/\ (isAnimating /\ CancelClick) =>
             /\ ~isAnimating'
             /\ pendingTimers' = {}
             /\ animationTimer' = 0
             /\ AllControlsEnabledNext
             /\ animationProgress' = -1
             /\ CanvasFullStaticNext
       /\ ~isAnimating' => (pendingTimers' = {} /\ animationProgress' = -1)
       /\ (~isAnimating /\ isAnimating') => AnimateClick]_vars

C2_Witness ==
    /\ hist.event = "cancel"
    /\ ~isAnimating
    /\ animationTimer = 0
    /\ pendingTimers = {}
    /\ AllControlsEnabled
    /\ animationProgress = -1
    /\ iterationInput = 1
    /\ canvas.mode = "2D"
    /\ Len(canvas.segments) = 2

\* C3: while an animation runs, progress never exceeds the segment count of
\* the point set being animated.
C3_ProgressBounded ==
    isAnimating => (animationProgress >= 0 /\ animationProgress <= TotalSegments)

C3_Witness ==
    /\ isAnimating
    /\ TotalSegments = 2
    /\ animationProgress = TotalSegments

\* C4: with every timer eventually firing, a running animation comes to an
\* end; the tick that ends it is tick number T + 1 of the run, and it enables
\* every control, sets progress to -1 and redraws the full static curve.
C4_Terminates ==
    /\ isAnimating ~> ~isAnimating
    /\ [][(isAnimating /\ ~isAnimating' /\ Tick) =>
             /\ ticks + 1 = TotalSegments + 1
             /\ AllControlsEnabledNext
             /\ animationProgress' = -1
             /\ CanvasFullStaticNext]_vars

C4_Witness ==
    /\ ~isAnimating
    /\ animationTimer = StaleTimer
    /\ AllControlsEnabled
    /\ iterationInput = 1
    /\ Len(canvas.segments) = 2

\* C5: an animate click followed at once by a cancel click leaves every
\* control enabled and the canvas as a direct draw of the same parameters
\* had it before the pair, in 2D and in 3D.
C5_StartCancelRestores ==
    [][(hist.event = "start" /\ isAnimating /\ CancelClick) =>
          (AllControlsEnabledNext /\ canvas' = hist.before)]_vars

(***************************************************************************)
(* Properties of the colour policy (checked under SpecColour)              *)
(***************************************************************************)
\* the call whose result call.rgb holds ran under the gradient policy
GradientCall ==
    /\ call.fn = "colour"
    /\ call.rgb # <<>>
    /\ call.useGradient
    /\ ~call.useRainbow

\* v lies between a and b, the ends included
Between(v, a, b) == (a <= v /\ v <= b) \/ (b <= v /\ v <= a)

Abs(v) == IF v < 0 THEN -v ELSE v

\* C11: every drawn segment, in the 2D and in the 3D branch, has the rainbow
\* colour when rainbow is enabled, whether or not gradient is enabled too; the
\* gradient colour only when gradient is enabled and rainbow is not; and the
\* solid start colour otherwise.
C11_RainbowOverGradient ==
    (call.fn = "colour" /\ call.rgb # <<>>) =>
        /\ call.useRainbow => call.rgb = HslToRgb(call.i, call.total)
        /\ (call.useGradient /\ ~call.useRainbow) =>
              call.rgb = GradientRgb(HexToRgb(call.startColor),
                                     HexToRgb(call.endColor), call.i, call.total)
        /\ (~call.useGradient /\ ~call.useRainbow) =>
              call.rgb = HexToRgb(call.startColor)

C11_Witness ==
    /\ call.fn = "colour"
    /\ call.is3D
    /\ call.useRainbow
    /\ call.useGradient
    /\ call.i = 2
    /\ call.total = 6
    /\ call.startColor = <<3, 3, 6, 6, 12, 12>>
    /\ call.endColor = <<15, 15, 15, 15, 15, 15>>
    /\ call.rgb = <<0, 255, 0>>

\* C12 as stated: under the gradient policy with N > 1 segments, segment 0 has
\* exactly the start colour, and segment N - 1 has a colour between the start
\* and the end colour that is neither of them, for every N and every pair of
\* colours.
C12_LastStrictlyBetween ==
    (GradientCall /\ call.total > 1) =>
        LET s == HexToRgb(call.startColor)
            e == HexToRgb(call.endColor)
        IN /\ call.i = 0 => call.rgb = s
           /\ call.i = call.total - 1 =>
                 /\ \A k \in 1..3 : Between(call.rgb[k], s[k], e[k])
                 /\ call.rgb # s
                 /\ call.rgb # e

\* C12 amended: under the gradient policy with N > 1 segments, segment 0 has
\* exactly the start colour; each channel of segment N - 1 lies between the
\* start and the end value, ends included; it equals the end value when
\* 2 * |end - start| < N (so always when start = end), and lies strictly
\* between the two when 2 * |end - start| > N.
C12_LastRounded ==
    (GradientCall /\ call.total > 1) =>
        LET s == HexToRgb(call.startColor)
            e == HexToRgb(call.endColor)
        IN /\ call.i = 0 => call.rgb = s
           /\ call.i = call.total - 1 =>
                 \A k \in 1..3 :
                    /\ Between(call.rgb[k], s[k], e[k])
                    /\ 2 * Abs(e[k] - s[k]) < call.total => call.rgb[k] = e[k]
                    /\ 2 * Abs(e[k] - s[k]) > call.total =>
                          (call.rgb[k] # s[k] /\ call.rgb[k] # e[k])

C12_Witness ==
    /\ GradientCall
    /\ call.total = 4
    /\ call.i = 3
    /\ call.startColor = <<0, 0, 0, 0, 0, 0>>
    /\ call.endColor = <<0, 0, 0, 0, 0, 1>>
    /\ call.rgb = <<0, 0, 1>>

(***************************************************************************)
(* Properties of the 3D projection (checked under SpecView)                *)
(***************************************************************************)
\* point number i of call.pts is at or behind the camera of call.B seen under
\* call.V: its rotated depth is at least the camera distance
BehindCamera(i) ==
    LET rz == Project3D(call.pts[i], call.B, call.V).z
    IN rz >= 0 /\ rz * rz >= call.B.cameraDist

\* C13: a point whose rotated depth is at least the camera distance projects
\* with valid = false, and no segment with such a point at either end is
\* stroked, whatever the view state and the prefix limit.
C13_BehindCameraNeverDrawn ==
    call.fn = "view" =>
        /\ call.proj # <<>> =>
              \A i \in 1..Len(call.pts) : BehindCamera(i) => ~call.proj[i].valid
        /\ call.stroked # NotDrawn =>
              \A i \in call.stroked : ~BehindCamera(i + 1) /\ ~BehindCamera(i + 2)

C13_Witness ==
    /\ call.fn = "view"
    /\ call.pts = <<<<0, 0, 0>>, <<2, 0, 0>>, <<0, 0, 2>>>>
    /\ call.B.viewCenter = <<0, 0, 0>>
    /\ call.B.cameraDist = 16
    /\ call.V.rotX = 0
    /\ call.V.rotY = 0
    /\ call.progress = -1
    /\ call.proj # <<>>
    /\ ~call.proj[3].valid
    /\ call.proj[2].valid
    /\ call.stroked = {0}

(***************************************************************************)
(* Properties of the number fields (checked under Spec)                    *)
(***************************************************************************)
\* the text parses to no number, or to one outside the slider's range
InvalidNumber(val, values) ==
    val = <<>> \/ val[1] < SliderMin(values) \/ val[1] > SliderMax(values)

\* C14: when a number field (iteration, angle, twist, extrusion) receives a
\* text that is not a number or is out of range, the parameter the geometry
\* is generated from, and so the geometry, stays as it was before the input.
C14_InvalidKeepsLastValue ==
    [][/\ \A text \in IterationTexts :
             (InvalidNumber(ParseInt(text), IterationValues)
                 /\ IterationNumberChange(text))
                => UNCHANGED <<iterationInput, pointVars>>
       /\ \A text \in AngleTexts :
             (InvalidNumber(ParseFloat(text), AngleValues)
                 /\ AngleNumberChange(text))
                => UNCHANGED <<angleInput, pointVars>>
       /\ \A text \in TwistTexts :
             (InvalidNumber(ParseFloat(text), TwistValues)
                 /\ TwistNumberChange(text))
                => UNCHANGED <<twistInput, pointVars>>
       /\ \A text \in ExtrudeTexts :
             (InvalidNumber(ParseFloat(text), ExtrudeValues)
                 /\ ExtrudeNumberChange(text))
                => UNCHANGED <<extrudeInput, pointVars>>]_vars

(***************************************************************************)
(* Properties of the viewer state (checked under Spec)                     *)
(***************************************************************************)
\* a parameter edit: a slider or a number field calls updateFractal()
ParameterEdit ==
    \/ \E v \in IterationValues : IterationInput(v)
    \/ \E v \in AngleValues : AngleInput(v)
    \/ \E v \in TwistValues : TwistInput(v)
    \/ \E v \in ExtrudeValues : ExtrudeInput(v)
    \/ \E text \in IterationTexts : IterationNumberChange(text)
    \/ \E text \in AngleTexts : AngleNumberChange(text)
    \/ \E text \in TwistTexts : TwistNumberChange(text)
    \/ \E text \in ExtrudeTexts : ExtrudeNumberChange(text)

\* the user turns or zooms the view with the mouse
ViewGesture ==
    \/ \E pos \in MousePositions : MouseMove(pos)
    \/ \E d \in WheelDeltas : Wheel(d)

\* C15: a parameter edit leaves yaw, pitch and user zoom unchanged, in 2D and
\* in 3D; apart from the user's own gestures, the three change only by being
\* reset to 0, 0, 1, and only on a toggle into 3D or a reset-view click.
C15_ViewResetOnlyOnToggleOrReset ==
    [][/\ viewVars' # viewVars =>
             \/ ViewGesture
             \/ /\ <<rotX', rotY', userZoom'>> = <<0, 0, 1000>>
                /\ (Enable3dChange /\ enable3d') \/ ResetViewClick
       /\ ParameterEdit => UNCHANGED viewVars]_vars

(***************************************************************************)
(* Further properties of the animation driver (checked under Spec)         *)
(***************************************************************************)
\* C16: at most one animation timer is pending, and it is the one the run in
\* progress holds the handle of; no timer is pending while no run is in
\* progress, so no tick of a cancelled or finished run ever runs; and a tick
\* that sets its successor has drawn its prefix and advanced progress first.
C16_TicksSequential ==
    /\ [](/\ Cardinality(pendingTimers) <= 1
          /\ pendingTimers # {} => (isAnimating /\ pendingTimers = {animationTimer}))
    /\ [][Tick =>
             /\ isAnimating
             /\ pendingTimers = {animationTimer}
             /\ pendingTimers' # {} =>
                   /\ animationProgress' = animationProgress + 1
                   /\ Len(canvas'.segments) = animationProgress]_vars

C16_Witness ==
    /\ isAnimating
    /\ ticks = 2
    /\ animationProgress = 2
    /\ pendingTimers = {animationTimer}
    /\ animationTimer = 1
    /\ Len(canvas.segments) = 1

\* C17: progress is -1 or a natural number; within a run it changes only by a
\* tick adding exactly 1, tick number k of the run drawing the first k - 1
\* segments, so that the ticks of an uncancelled run draw 0, 1, ..., T
\* segments in that order; it goes back to -1 only by the run's last tick or
\* by a cancel click.
C17_ProgressMonotone ==
    /\ [](/\ animationProgress = -1 \/ animationProgress \in Nat
          /\ isAnimating => animationProgress = ticks)
    /\ [][/\ (~isAnimating /\ isAnimating') =>
                /\ AnimateClick
                /\ animationProgress' = 1
                /\ Len(canvas'.segments) = 0
          /\ (isAnimating /\ animationProgress' # animationProgress) =>
                \/ /\ Tick
                   /\ isAnimating'
                   /\ animationProgress' = animationProgress + 1
                   /\ Len(canvas'.segments) = animationProgress
                \/ /\ Tick
                   /\ ~isAnimating'
                   /\ animationProgress' = -1
                   /\ animationProgress = TotalSegments
                   /\ Len(canvas'.segments) = animationProgress
                \/ /\ CancelClick
                   /\ animationProgress' = -1
          /\ (isAnimating /\ animationProgress' = animationProgress) => isAnimating'
         ]_vars

C17_Witness ==
    /\ isAnimating
    /\ TotalSegments = 2
    /\ animationProgress = 2
    /\ ticks = 2
    /\ canvas.mode = "3D"
    /\ Len(canvas.segments) = 1

\* some control of controlsToDisable is disabled
SomeControlDisabled == \E c \in controlsToDisable : disabled[c]

\* C18: in every state between handlers the parameter controls are disabled,
\* all of them, exactly when an animation is running, which is exactly when
\* progress is >= 0; a start disables them and makes its first draw with
\* progress 0, and the end of a run, by its last tick or by a cancel click,
\* enables them all.
C18_DisabledIffAnimating ==
    /\ [](/\ isAnimating <=> animationProgress >= 0
          /\ isAnimating <=> SomeControlDisabled
          /\ isAnimating <=> (\A c \in controlsToDisable : disabled[c]))
    /\ [][/\ (~isAnimating /\ isAnimating') =>
                /\ \A c \in controlsToDisable : disabled'[c]
                /\ Len(canvas'.segments) = 0
          /\ (isAnimating /\ ~isAnimating') => AllControlsEnabledNext]_vars

C18_Witness ==
    /\ hist.event = "start"
    /\ isAnimating
    /\ animationProgress = 1
    /\ \A c \in controlsToDisable : disabled[c]
    /\ ~disabled["resetBtn"]
    /\ Len(canvas.segments) = 0
    /\ enable3d

(***************************************************************************)
(* The generator's recurrence (checked under SpecGen)                      *)
(***************************************************************************)
\* the image of one character under F -> F+G, G -> F-G, others copied
Image(ch) ==
    CASE ch = "F" -> <<"F", "+", "G">>
      [] ch = "G" -> <<"F", "-", "G">>
      [] OTHER -> <<ch>>

RECURSIVE Simultaneous(_)
\* every character of str replaced by its image, the images in str's order
Simultaneous(str) ==
    IF str = <<>> THEN <<>>
    ELSE Simultaneous(SubSeq(str, 1, Len(str) - 1)) \o Image(str[Len(str)])

\* C19: for every n >= 0, whatever the cache holds, generateLSystem(n + 1) is
\* generateLSystem(n) with every character rewritten at once by F -> F+G,
\* G -> F-G, and every other character copied.
C19_NextIsRewrite ==
    /\ \A n \in 0..(MaxN - 1) :
          GenerateLSystem(lSystemCache, n + 1)
              = Simultaneous(GenerateLSystem(lSystemCache, n))
    /\ (call.fn = "generateLSystem" /\ call.n >= 1) =>
          call.ret = Simultaneous(GenerateLSystem(lSystemCache, call.n - 1))

C19_Witness ==
    /\ call.fn = "generateLSystem"
    /\ call.n = 2
    /\ ~call.hit
    /\ call.ret = <<"F", "+", "G", "+", "F", "-", "G">>
    /\ 1 \in DOMAIN lSystemCache
    /\ lSystemCache[1] = <<"F", "+", "G">>

(***************************************************************************)
(* The viewer's bounds and the 3D point set (checked under Spec)           *)
(***************************************************************************)
\* twice the centre of the axis-aligned box around pts
BoxCentre(pts) ==
    <<MinOf(Coord(pts, 1)) + MaxOf(Coord(pts, 1)),
      MinOf(Coord(pts, 2)) + MaxOf(Coord(pts, 2)),
      MinOf(Coord(pts, 3)) + MaxOf(Coord(pts, 3))>>

\* the square of the diagonal of the axis-aligned box around pts
BoxDiagonal(pts) ==
    LET side(k) == MaxOf(Coord(pts, k)) - MinOf(Coord(pts, k))
    IN side(1) * side(1) + side(2) * side(2) + side(3) * side(3)

\* C20: after every step that changes the 3D point set, and after every start
\* of an animation, in 2D mode as in 3D mode, the view centre is the centre of
\* the box around the current 3D points and the bounding radius is half the
\* box's diagonal.
C20_BoundsFollowPoints ==
    [][(currentPoints3D' # currentPoints3D \/ (AnimateClick /\ isAnimating'))
          => /\ viewCenter' = BoxCentre(currentPoints3D')
             /\ boundingRadius' = BoxDiagonal(currentPoints3D')]_vars

(***************************************************************************)
(* The blog post page: EricPost.jsx and mdTableJson of utils               *)
(*                                                                         *)
(* A text is the sequence of its lines (what split("\n") returns), a line  *)
(* is a sequence of tokens, and a token is a sequence of characters: the   *)
(* bar "|" or the trimmed text between two bars.                           *)
(***************************************************************************)
Bar == <<"|">>
\* the value of a missing property, and of an empty string
Undefined == <<>>

\* line.split("|").map(trim).filter(Boolean) (part_000 lines 53-56, 63-66)
Cells(line) == SelectSeq(line, LAMBDA tok : tok # Bar /\ tok # <<>>)

RECURSIVE TrimLines(_)
\* markdown.trim().split("\n"): blank lines at either end dropped (line 44)
TrimLines(lines) ==
    IF lines = <<>> THEN <<>>
    ELSE IF Head(lines) = <<>> THEN TrimLines(Tail(lines))
    ELSE IF lines[Len(lines)] = <<>> THEN TrimLines(SubSeq(lines, 1, Len(lines) - 1))
    ELSE lines

\* obj[header] = values[index] for every index: the last one of a name stays
Property(headers, values, name) ==
    LET at == {i \in 1..Len(headers) : headers[i] = name}
    IN IF at = {} THEN Undefined
       ELSE values[CHOOSE i \in at : \A j \in at : j <= i]

\* mdTableJson (part_000 lines 42-78): the first data row as an object, or a
\* throw when there are fewer than 3 lines or a row's cell count is wrong
MdTableJson(markdown) ==
    LET lines == TrimLines(markdown)
        headers == Cells(lines[1])
        dataLines == SubSeq(lines, 3, Len(lines))
    IN IF Len(lines) < 3 THEN [threw |-> TRUE]
       ELSE IF \E k \in 1..Len(dataLines) : Len(Cells(dataLines[k])) # Len(headers)
       THEN [threw |-> TRUE]
       ELSE [threw |-> FALSE,
             date |-> Property(headers, Cells(dataLines[1]), <<"date">>),
             title |-> Property(headers, Cells(dataLines[1]), <<"title">>)]

\* decodeURIComponent: %20 is a space, a lone % throws URIError
DecodeURIComponent(s) ==
    IF \E i \in 1..Len(s) : s[i] = "%" THEN [threw |-> TRUE]
    ELSE [threw |-> FALSE,
          value |-> [i \in 1..Len(s) |-> IF s[i] = "%20" THEN " " ELSE s[i]]]

\* a post file: header row, separator row, data row, blank line, then the body
PostFile(date, title, body) ==
    << <<Bar, <<"date">>, Bar, <<"title">>, Bar>>,
       <<Bar, <<"-">>, Bar, <<"-">>, Bar>>,
       <<Bar, date, Bar, title, Bar>>,
       <<>> >> \o body

TitleA == <<"A">>
TitleB == <<"B", " ", "1">>
DateA == <<"2024-01-01">>
DateB == <<"2024-02-02">>
BodyA == << <<<<"text of A">>>> >>
BodyB == << <<<<"text of B">>>>, <<<<"more of B">>>> >>

\* the files of import.meta.glob (line 16): two posts and a file without table
PostFiles ==
    {PostFile(DateA, TitleA, BodyA), PostFile(DateB, TitleB, BodyB),
     << <<<<"no table">>>> >>}

\* the values the route's :postId takes
PostIds == {<<"A">>, <<"B", "%20", "1">>, <<"%">>}

\* route changes after the first render
MaxNavigations == 2

\* useState("# hello") and useState("") (lines 12-13)
HelloContent == << <<<<"# hello">>>> >>

\* the fetches one run of the effect starts (lines 19-21): none when
\* decodeURIComponent throws, else one per file, each holding the run's
\* postIdDecoded
FetchesOf(run, postId) ==
    LET decoded == DecodeURIComponent(postId)
    IN IF decoded.threw THEN {}
       ELSE {[run |-> run, postIdDecoded |-> decoded.value, file |-> f] :
                f \in PostFiles}

\* the second then-callback (lines 23-36) on the text of request req
Responded(page, req) ==
    LET lines == req.file
        metadata == SubSeq(lines, 1, IF Len(lines) < 4 THEN Len(lines) ELSE 4)
        json == MdTableJson(metadata)
    IN IF json.threw THEN page
       ELSE IF json.title = req.postIdDecoded
       THEN [page EXCEPT !.content = SubSeq(lines, 5, Len(lines)),
                         !.date = json.date]
       ELSE page

postRest == <<controlVars, disabled, pointVars, lSystemCache, boundsVars, viewVars,
              mouseVars, animVars, canvasSize, canvas, hist>>

\* the first render's effect (lines 15-41)
MountEffect ==
    /\ call.fn = "EricPost"
    /\ ~call.mounted
    /\ call' = [call EXCEPT !.mounted = TRUE,
                            !.pending = FetchesOf(0, call.postId)]
    /\ UNCHANGED postRest

\* the route's postId changes: a render, then the effect again (line 41)
Navigate(postId) ==
    /\ call.fn = "EricPost"
    /\ call.mounted
    /\ call.navigations < MaxNavigations
    /\ postId # call.postId
    /\ call' = [call EXCEPT !.postId = postId,
                            !.navigations = @ + 1,
                            !.pending = @ \cup FetchesOf(call.navigations + 1, postId)]
    /\ UNCHANGED postRest

\* one pending fetch completes and its callbacks run
FetchResponds(req) ==
    /\ call.fn = "EricPost"
    /\ req \in call.pending
    /\ call' = [Responded(call, req) EXCEPT !.pending = call.pending \ {req}]
    /\ UNCHANGED postRest

PostInit ==
    /\ Declared
    /\ call \in [fn : {"EricPost"}, postId : PostIds, mounted : {FALSE},
                 navigations : {0}, content : {HelloContent}, date : {Undefined},
                 pending : {{}}]

PostNext ==
    \/ MountEffect
    \/ \E postId \in PostIds : Navigate(postId)
    \/ \E req \in call.pending : FetchResponds(req)

SpecPost == PostInit /\ [][PostNext]_vars

\* C21: once the route's postId has changed and every fetch of every run of
\* the effect has completed, in whatever order, the page shows the content
\* and the date of the post whose title is the current postId.
C21_ShowsCurrentPost ==
    (call.fn = "EricPost" /\ call.mounted /\ call.navigations >= 1
        /\ call.pending = {})
       => /\ call.postId = <<"A">> =>
                (call.content = BodyA /\ call.date = DateA)
          /\ call.postId = <<"B", "%20", "1">> =>
                (call.content = BodyB /\ call.date = DateB)

(***************************************************************************)
(* The limits of the view (checked under Spec)                             *)
(***************************************************************************)
\* C22: in every reachable state user zoom lies in [0.1, 10] and the pitch in
\* [-(pi/2 - 0.01), pi/2 - 0.01]; a wheel or mouse-move event changes yaw,
\* pitch and zoom only while 3D mode is enabled.
C22_ViewWithinLimits ==
    /\ [](/\ userZoom >= 100 /\ userZoom <= 10000
          /\ rotX >= -PitchLimit /\ rotX <= PitchLimit)
    /\ [][(ViewGesture /\ ~enable3d) => UNCHANGED viewVars]_vars

C22_Witness ==
    /\ enable3d
    /\ isDragging
    /\ rotX = -PitchLimit
    /\ rotY = -15708
    /\ userZoom = 100

====
